---- MODULE Spec2Model ----
(***************************************************************************)
(* Model of the invoice extraction pipeline.                               *)
(*                                                                         *)
(*   Spec    process_pdf_with_headers (src/process/process_pdf_with_       *)
(*           headers.py): the scheduler thread, one worker per page, the   *)
(*           temp directory and the calls made to the LLM client.          *)
(*   FairSpec  Spec with every enabled step eventually taken.              *)
(*   SpecDet the same run against a deterministic mock of the client.      *)
(*   SpecRL  process_excel_file (src/process/process_excel.py): the pool   *)
(*           threads running process_chunk, RateLimiter.wait_if_needed     *)
(*           one statement per step with a discrete clock, and the         *)
(*           combination of the chunk results.                             *)
(*   SpecRLDet  SpecRL against a deterministic mock of the client.         *)
(*   SpecPrep  prepare_chunks (src/process/process_excel.py) on a table    *)
(*           of any length up to MaxRows.                                  *)
(*   SpecTwoRuns  Spec with a second run of process_pdf_with_headers in    *)
(*           the same working directory.                                   *)
(*   SpecPF  process_file (src/process_invoice.py): the dispatch on the    *)
(*           input, the calls it makes, each of which returns or raises,   *)
(*           and its handlers.                                             *)
(***************************************************************************)
EXTENDS Integers, Sequences, FiniteSets, Bags, TLC

(* ------------------------------ bounds --------------------------------- *)
MaxPages == 3
MaxWorkers == 2
MaxBatch == 2
MaxChunks == 3
MaxCallsBound == 2
MaxTime == 120
MaxRows == 7
MaxChunkSize == 3

(* ------------------------- program constants --------------------------- *)
\* max_workers of process_excel_file
NumWorkers == 2
\* the window of the rate limiter, in seconds
Window == 60

Pages == 0 .. (MaxPages - 1)
Workers == 1 .. NumWorkers
\* the amounts by which the clock advances in one step
TickSteps == {30, 60}
\* the item lists a page's response can carry (response.parsed.items)
ItemLists == {<<>>, <<"a">>, <<"b", "a">>}
\* the header lists the header response can carry (response.parsed.headers)
HeaderChoices == {<<>>, <<"Name">>, <<"Name", "Batch">>}

VARIABLES
    (* process_pdf_with_headers: the scheduler thread *)
    mpc,          \* position of the scheduler thread
    rast,         \* outcome of pdf2image.convert_from_path
    n,            \* len(images)
    max_workers,  \* argument
    batch_size,   \* argument
    images,       \* images[p]: the list slot still references the page image
    files,        \* the page_k.jpg in temp_dir, each named by its number k
    saved,        \* page indices p for which save_image has returned
    headers,      \* local `headers` of process_pdf_with_headers
    all_items,    \* local `all_items`
    bi,           \* loop variable i of the batch loop
    sub,          \* next page the dict comprehension submits
    pool,         \* max_workers of the current ThreadPoolExecutor (0: none)
    collected,    \* pages whose future as_completed has yielded
    excPending,   \* an exception is propagating through the finally block
    ret,          \* the InvoiceData returned
    (* process_single_page: one invocation per page *)
    pg,           \* position of the invocation for page p
    hdrs,         \* local `headers` of the invocation
    prompt,       \* header list written into the prompt
    res,          \* the PageData returned
    extracted,    \* what extract_headers returned
    ncalls,       \* upload / generate_content calls started for page p
    hdrCalls,     \* extract_headers invocations for page p
    client,       \* the extraction client: the live one, or a mock with one
                  \* fixed outcome per page
    item_page,    \* item_page[k]: the page whose result brought all_items[k]
    finished,     \* pages whose future is done and not yet yielded, in the
                  \* order their process_single_page returned
    early,        \* pages not yet yielded whose future was done when
                  \* as_completed started
    invoked,      \* invoked[p]: calls of process_single_page for page p
    sweep,        \* the finally block: whether it ran, and the files whose
                  \* unlink raised
    (* RateLimiter and the threads of process_excel_file *)
    batches,      \* the slices `batch` the loop has taken, as page indices
    remaining_pages, \* pages whose image the list `remaining_pages` references
    content,      \* content[k]: the page whose image page_k.jpg holds
    sent,         \* sent[p]: whose images the invocation for page p uploaded
    temp_dir,     \* the directory content/temp/pdf_processing exists
    now,          \* time.time()
    rl_max,       \* self.max_calls_per_minute
    rl_calls,     \* self.calls
    chunksLeft,   \* chunks executor.map has not yet handed to a thread
    wpc,          \* position of each pool thread
    wcur,         \* local current_time
    wtmp,         \* the list built by the comprehension, before it is stored
    wwake,        \* time at which time.sleep returns
    wchk,         \* what the thread found at the length check, and the
                  \* oldest recorded call at that moment
    wsleep,       \* local sleep_time
    wout,         \* how the thread's call of wait_if_needed ended
    wstamp,       \* the value time.time() returned for the append
    admitted,     \* times at which wait_if_needed recorded a call
    num_chunks,   \* len(chunks_to_process)
    wchunk,       \* index of the chunk the thread is working on (0: none)
    results,      \* results[c]: how process_chunk ended for chunk c, and its list
    xpc,          \* position of process_excel_file
    final_result, \* the dict process_excel_file returns
    (* process_file *)
    fpc,          \* position of process_file
    file_exists,  \* os.path.exists(file_path)
    file_ext,     \* file_ext
    temp_files,   \* local `temp_files`
    on_disk,      \* the temporary files that exist
    invoice_data, \* local `invoice_data`: the items it holds
    json_path,    \* local `json_path`
    result_file,  \* the file result/<name>.json: who wrote it, and what
    raised_at,    \* the steps of process_file at which a call raised
    escaped,      \* an exception has left process_file
    (* a second run of process_pdf_with_headers in the same working directory *)
    other_pc,     \* position of the other run
    other_saved,  \* the page files the other run has written
    (* prepare_chunks *)
    ppc,          \* position of prepare_chunks
    df_len,       \* len(df)
    chunk_size,   \* argument
    chunk_i,      \* loop variable i
    chunks_to_process  \* local `chunks_to_process`

pdfVars == <<mpc, rast, n, max_workers, batch_size, images, files, saved,
             headers, all_items, bi, sub, pool, collected, excPending, ret,
             pg, hdrs, prompt, res, extracted, ncalls, hdrCalls, client,
             item_page, finished, early, invoked, sweep, batches,
             remaining_pages, content, sent, temp_dir>>
rlVars == <<now, rl_max, rl_calls, chunksLeft, wpc, wcur, wtmp, wwake, wchk,
            wsleep, wout, admitted, num_chunks, wchunk, results, xpc,
            final_result, wstamp>>
pfVars == <<fpc, file_exists, file_ext, temp_files, on_disk, invoice_data,
            json_path, result_file, raised_at, escaped>>
otherVars == <<other_pc, other_saved>>
prepVars == <<ppc, df_len, chunk_size, chunk_i, chunks_to_process>>
vars == <<pdfVars, rlVars, pfVars, otherVars, prepVars>>

\* what a step of one component leaves alone
besidesPdf == <<rlVars, pfVars, otherVars, prepVars>>
besidesRl == <<pdfVars, pfVars, otherVars, prepVars>>
besidesPf == <<pdfVars, rlVars, otherVars, prepVars>>
besidesRuns == <<rlVars, pfVars, prepVars>>
besidesPrep == <<pdfVars, rlVars, pfVars, otherVars>>

(* ------------------------------ helpers -------------------------------- *)
Min(a, b) == IF a <= b THEN a ELSE b

\* the stages in which a thread is inside process_single_page
RunningStages == {"save", "hdr_upload", "hdr_gen", "upload", "gen"}
Running == {p \in Pages : pg[p] \in RunningStages}

\* slices that share their last page with the next slice
Batch_overlap(i) == {p \in 1 .. (n - 1) : i + 1 <= p /\ p <= i + batch_size + 1}

\* remaining_pages[i:i + batch_size], as page indices
Batch(i) == {p \in 1 .. (n - 1) : i + 1 <= p /\ p <= i + batch_size}

\* PageData(idx, image_path, headers, items); status tells the return in the
\* try block ("ok") from the one in the except block ("failed")
PageData(st, path, h, its) ==
    [status |-> st, image_path |-> path, headers |-> h, items |-> its]

\* the finally block has not run
NotSwept == [ran |-> FALSE, failed |-> {}]

\* no value yet
NoResult == PageData("none", 0, <<>>, <<>>)

(* ------------------------ the extraction client ------------------------ *)
\* what a mocked client and disk do for one page: the stage of
\* process_single_page that raises ("none": no stage does), the header list
\* extract_headers returns and the items response.parsed.items holds
Fate(stage, h, its) == [fail |-> stage, headers |-> h, items |-> its]
NoFate == Fate("none", <<>>, <<>>)

\* the mocked outcomes tried for page 0 and for the later pages
FirstFates ==
    {Fate("save", <<>>, <<>>), Fate("hdr_upload", <<>>, <<>>),
     Fate("hdr_gen", <<>>, <<>>), Fate("upload", <<"Name">>, <<>>),
     Fate("gen", <<"Name">>, <<>>), Fate("none", <<"Name">>, <<"a">>),
     Fate("none", <<"Name", "Batch">>, <<"b", "a">>)}
LaterFates ==
    {Fate("gen", <<>>, <<>>), Fate("none", <<>>, <<"a">>),
     Fate("none", <<>>, <<"b", "a">>)}

\* setup_client() against the live service: any outcome at any call
LiveClient == [det |-> FALSE, fate |-> [p \in Pages |-> NoFate]]
LiveClients(np) == {LiveClient}

\* deterministic mocks for a document of np pages
MockClients(np) ==
    {[det |-> TRUE, fate |-> f] :
        f \in {g \in [Pages -> FirstFates \cup LaterFates \cup {NoFate}] :
                  /\ 0 < np => g[0] \in FirstFates
                  /\ \A p \in Pages : 0 < p /\ p < np => g[p] \in LaterFates
                  /\ \A p \in Pages : p >= np => g[p] = NoFate}}

\* the stage page p is in may raise / may return
MayFail(p) == ~client.det \/ client.fate[p].fail = pg[p]
MaySucceed(p) == ~client.det \/ client.fate[p].fail # pg[p]

\* the answers generate_content may give for page p
HeadersOffered(p) ==
    IF client.det THEN {client.fate[p].headers} ELSE HeaderChoices
ItemsOffered(p) == IF client.det THEN {client.fate[p].items} ELSE ItemLists

(* ----------------------- initial state (both) -------------------------- *)
\* one file name for the pages of a run
PagePath_shared(idx) == 1

\* image_path = temp_dir / f"page_{idx+1}.jpg"; 0 stands for ""
PagePath(idx) == idx + 1

\* the file names the pages of a run can take
Paths == {PagePath(p) : p \in Pages}

\* no page has written the file
NoPage == -1

PdfInit ==
    /\ mpc = "convert"
    /\ rast = "pending"
    /\ n = 0
    /\ max_workers \in 1 .. MaxWorkers
    /\ batch_size \in 1 .. MaxBatch
    /\ images = [p \in Pages |-> FALSE]
    /\ files = {}
    /\ saved = {}
    /\ headers = <<>>
    /\ all_items = <<>>
    /\ bi = 0
    /\ sub = 0
    /\ pool = 0
    /\ collected = {}
    /\ excPending = FALSE
    /\ ret = NoResult
    /\ pg = [p \in Pages |-> "idle"]
    /\ hdrs = [p \in Pages |-> <<>>]
    /\ prompt = [p \in Pages |-> <<>>]
    /\ res = [p \in Pages |-> NoResult]
    /\ extracted = NoResult
    /\ ncalls = [p \in Pages |-> 0]
    /\ hdrCalls = [p \in Pages |-> 0]
    /\ client = LiveClient
    /\ item_page = <<>>
    /\ finished = <<>>
    /\ early = {}
    /\ invoked = [p \in Pages |-> 0]
    /\ sweep = NotSwept
    /\ batches = <<>>
    /\ remaining_pages = {}
    /\ content = [k \in Paths |-> NoPage]
    /\ sent = [p \in Pages |-> {}]
    /\ temp_dir = FALSE


(* ----------------------- process_single_page --------------------------- *)
\* a branch that takes the header path for every page
IsFirstPage_always(idx) == idx >= 0

\* if idx == 0
IsFirstPage(idx) == idx = 0

\* an except branch that returns a fresh empty header list
FailResult_noHeaders(p) == PageData("failed", 0, <<>>, <<>>)

\* the except branch: PageData(idx=idx, image_path="", headers=headers, items=[])
FailResult(p) == PageData("failed", 0, hdrs[p], <<>>)

\* the normal return: PageData(idx, image_path, headers, items)
OkResult(p, its) == PageData("ok", PagePath(p), hdrs[p], its)

Fail(p) ==
    /\ MayFail(p)
    /\ res' = [res EXCEPT ![p] = FailResult(p)]
    /\ pg' = [pg EXCEPT ![p] = "done"]

\* save_image, then the branch on idx
SaveImage(p) ==
    /\ pg[p] = "save"
    /\ \/ /\ MaySucceed(p)
          /\ temp_dir
          /\ files' = files \cup {PagePath(p)}
          /\ content' = [content EXCEPT ![PagePath(p)] = p]
          /\ saved' = saved \cup {p}
          /\ IF IsFirstPage(p)
                THEN /\ pg' = [pg EXCEPT ![p] = "hdr_upload"]
                     /\ hdrCalls' = [hdrCalls EXCEPT ![p] = @ + 1]
                     /\ UNCHANGED prompt
                ELSE /\ pg' = [pg EXCEPT ![p] = "upload"]
                     /\ prompt' = [prompt EXCEPT ![p] = hdrs[p]]
                     /\ UNCHANGED hdrCalls
          /\ UNCHANGED res
       \/ /\ Fail(p)
          /\ UNCHANGED <<files, content, saved, hdrCalls, prompt>>
    /\ UNCHANGED <<mpc, rast, n, max_workers, batch_size, images, headers,
                   all_items, bi, sub, pool, collected, excPending, ret, hdrs,
                   extracted, ncalls, client, item_page, early, invoked,
                   sweep, batches, remaining_pages, sent, temp_dir>>
    /\ finished' = IF pg'[p] = "done" /\ p # 0
                       THEN Append(finished, p) ELSE finished
    /\ UNCHANGED besidesPdf

\* extract_headers: client.files.upload
HdrUpload(p) ==
    /\ pg[p] = "hdr_upload"
    /\ ncalls' = [ncalls EXCEPT ![p] = @ + 1]
    /\ \/ /\ MaySucceed(p)
          /\ PagePath(p) \in files
          /\ sent' = [sent EXCEPT ![p] = @ \cup {content[PagePath(p)]}]
          /\ pg' = [pg EXCEPT ![p] = "hdr_gen"]
          /\ UNCHANGED res
       \/ Fail(p) /\ UNCHANGED sent
    /\ UNCHANGED <<mpc, rast, n, max_workers, batch_size, saved, images,
                   files, headers, all_items, bi, sub, pool, collected,
                   excPending, ret, hdrs, prompt, extracted, hdrCalls, client,
                   item_page, early, invoked, sweep, batches, remaining_pages,
                   content, temp_dir>>
    /\ finished' = IF pg'[p] = "done" /\ p # 0
                       THEN Append(finished, p) ELSE finished
    /\ UNCHANGED besidesPdf

\* the list extract_headers returned dropped, the argument kept
LocalHeaders_argument(p, h) == hdrs[p]

\* headers = extract_headers(client, image_path, model_id): the local
\* `headers` of the invocation is rebound to the list returned
LocalHeaders(p, h) == h

\* extract_headers: client.models.generate_content and the return
HdrGenerate(p) ==
    /\ pg[p] = "hdr_gen"
    /\ ncalls' = [ncalls EXCEPT ![p] = @ + 1]
    /\ \/ \E h \in HeadersOffered(p) :
             /\ MaySucceed(p)
             /\ hdrs' = [hdrs EXCEPT ![p] = LocalHeaders(p, h)]
             /\ extracted' = [status |-> "ok", headers |-> h]
             /\ pg' = [pg EXCEPT ![p] = "upload"]
             /\ UNCHANGED res
       \/ /\ Fail(p)
          /\ UNCHANGED <<hdrs, extracted>>
    /\ UNCHANGED <<mpc, rast, n, max_workers, batch_size, saved, images,
                   files, headers, all_items, bi, sub, pool, collected,
                   excPending, ret, prompt, hdrCalls, client, item_page,
                   early, invoked, sweep, batches, remaining_pages, content,
                   sent, temp_dir>>
    /\ finished' = IF pg'[p] = "done" /\ p # 0
                       THEN Append(finished, p) ELSE finished
    /\ UNCHANGED besidesPdf

\* open(image_path, 'rb') and client.files.upload
Upload(p) ==
    /\ pg[p] = "upload"
    /\ ncalls' = [ncalls EXCEPT ![p] = @ + 1]
    /\ \/ /\ MaySucceed(p)
          /\ PagePath(p) \in files
          /\ sent' = [sent EXCEPT ![p] = @ \cup {content[PagePath(p)]}]
          /\ pg' = [pg EXCEPT ![p] = "gen"]
          /\ UNCHANGED res
       \/ Fail(p) /\ UNCHANGED sent
    /\ UNCHANGED <<mpc, rast, n, max_workers, batch_size, saved, images,
                   files, headers, all_items, bi, sub, pool, collected,
                   excPending, ret, hdrs, prompt, extracted, hdrCalls, client,
                   item_page, early, invoked, sweep, batches, remaining_pages,
                   content, temp_dir>>
    /\ finished' = IF pg'[p] = "done" /\ p # 0
                       THEN Append(finished, p) ELSE finished
    /\ UNCHANGED besidesPdf

\* client.models.generate_content, response.parsed.items and the return
Generate(p) ==
    /\ pg[p] = "gen"
    /\ ncalls' = [ncalls EXCEPT ![p] = @ + 1]
    /\ \/ \E its \in ItemsOffered(p) :
             /\ MaySucceed(p)
             /\ res' = [res EXCEPT ![p] = OkResult(p, its)]
             /\ pg' = [pg EXCEPT ![p] = "done"]
       \/ Fail(p)
    /\ UNCHANGED <<mpc, rast, n, max_workers, batch_size, saved, images,
                   files, headers, all_items, bi, sub, pool, collected,
                   excPending, ret, hdrs, prompt, extracted, hdrCalls, client,
                   item_page, early, invoked, sweep, batches, remaining_pages,
                   content, sent, temp_dir>>
    /\ finished' = IF pg'[p] = "done" /\ p # 0
                       THEN Append(finished, p) ELSE finished
    /\ UNCHANGED besidesPdf


(* --------------------- process_pdf_with_headers ------------------------ *)
\* a pool with one thread per page of the batch
PoolSize_perPage(b) == Cardinality(b)

\* min(max_workers, len(batch))
PoolSize(b) == Min(max_workers, Cardinality(b))

\* page 0 handed to a thread and not waited for
FirstPageReturned_noWait == pg[0] # "idle"

\* the synchronous call of process_single_page for page 0 has returned
FirstPageReturned == pg[0] = "done"

\* the header list left as it was initialised
HeadersOfFirstPage_initial == headers

\* headers = first_page.headers
HeadersOfFirstPage == res[0].headers

\* a submit that passes the initial, empty header list
SubmittedHeaders_initial == <<>>

\* the header element of the tuple handed to executor.submit
SubmittedHeaders == headers

\* an assignment in place of the extend
Extend_assign(items, page) == page.items

\* an extend that only the first non-empty result performs
Extend_firstOnly(items, page) == IF items = <<>> THEN page.items ELSE items

\* items at the front of the aggregate
Extend_prepend(items, page) == page.items \o items

\* the page's items inserted behind the first item of the list
Extend_splice(items, page) ==
    IF items = <<>> THEN page.items
    ELSE <<Head(items)>> \o page.items \o Tail(items)

\* all_items.extend(page.items)
Extend(items, page) == items \o page.items

\* for each item of the result of page p, the page it comes from
Origins(p) == [items |-> [k \in 1 .. Len(res[p].items) |-> p]]

\* an executor left without waiting for its futures
BatchCollected_noWait(i) == TRUE

\* every future of the batch has been yielded by as_completed
BatchCollected(i) == Batch(i) \subseteq collected

\* the thread pool takes work items in submission order
NextQueued(p) == /\ pg[p] = "queued"
                 /\ \A q \in Pages : pg[q] = "queued" => p <= q

\* a pool thread is free to take a work item
ThreadFree == Cardinality(Running) < pool

\* a range that runs one past the remaining pages
MoreBatches_offByOne(i) == i <= n - 1

\* i in range(0, len(remaining_pages), batch_size)
MoreBatches(i) == i < n - 1

\* a loop that advances by one page
NextStart_byOne(i) == i + 1

\* the step of range(0, len(remaining_pages), batch_size)
NextStart(i) == i + batch_size

\* for i in range(0, len(remaining_pages), batch_size): enter the body at i,
\* or leave the loop and the try block
EnterBatchOrLeave(i) ==
    IF MoreBatches(i)
        THEN /\ mpc' = "submit"
             /\ bi' = i
             /\ sub' = i + 1
             /\ pool' = PoolSize(Batch(i))
             /\ batches' = Append(batches, Batch(i))
        ELSE /\ mpc' = "cleanup"
             /\ pool' = 0
             /\ UNCHANGED <<bi, sub, batches>>

\* a failed conversion taken for a document without pages
AfterRasterFailure_goOn == "first_page"

\* convert_from_path is called outside the try block: its exception leaves
\* process_pdf_with_headers
AfterRasterFailure == "raised"

\* the clients setup_client may return for a document of np pages
Clients(mock, np) == IF mock THEN MockClients(np) ELSE LiveClients(np)

\* pdf2image.convert_from_path; then mkdir, setup_client and the locals
Rasterize(mock) ==
    /\ mpc = "convert"
    /\ \/ /\ rast' = "failed"
          /\ mpc' = AfterRasterFailure
          /\ UNCHANGED <<n, images, client, temp_dir>>
       \/ \E np \in 0 .. MaxPages :
             /\ rast' = "ok"
             /\ n' = np
             /\ images' = [p \in Pages |-> p < np]
             /\ mpc' = "first_page"
             /\ client' \in Clients(mock, np)
             /\ temp_dir' = TRUE
    /\ UNCHANGED <<max_workers, batch_size, saved, files, headers, all_items,
                   bi, sub, pool, collected, excPending, ret, pg, hdrs,
                   prompt, res, extracted, ncalls, hdrCalls, item_page,
                   finished, early, invoked, sweep, batches, remaining_pages,
                   content, sent>>
    /\ UNCHANGED besidesPdf

\* a run against the live service
ConvertFromPath == Rasterize(FALSE)

\* a run against a deterministic mock of the client
ConvertFromPathMock == Rasterize(TRUE)

\* process_single_page((0, images[0], temp_dir, headers, client, model_id))
CallFirstPage ==
    /\ mpc = "first_page"
    /\ IF n = 0
          THEN /\ excPending' = TRUE
               /\ mpc' = "cleanup"
               /\ UNCHANGED <<pg, hdrs, invoked>>
          ELSE /\ pg' = [pg EXCEPT ![0] = "save"]
               /\ invoked' = [invoked EXCEPT ![0] = @ + 1]
               /\ hdrs' = [hdrs EXCEPT ![0] = headers]
               /\ mpc' = "first_wait"
               /\ UNCHANGED excPending
    /\ UNCHANGED <<rast, n, max_workers, batch_size, saved, images, files,
                   headers, all_items, bi, sub, pool, collected, ret, prompt,
                   res, extracted, ncalls, hdrCalls, client, item_page,
                   finished, early, sweep, batches, remaining_pages, content,
                   sent, temp_dir>>
    /\ UNCHANGED besidesPdf

\* headers = first_page.headers; all_items.extend(first_page.items);
\* images[0] = None; then the head of the batch loop
TakeFirstPage ==
    /\ mpc = "first_wait"
    /\ FirstPageReturned
    /\ headers' = HeadersOfFirstPage
    /\ all_items' = Extend(all_items, res[0])
    /\ item_page' = Extend(item_page, Origins(0))
    /\ images' = [images EXCEPT ![0] = FALSE]
    /\ remaining_pages' = 1 .. (n - 1)
    /\ EnterBatchOrLeave(0)
    /\ UNCHANGED <<rast, n, max_workers, batch_size, saved, files, collected,
                   excPending, ret, pg, hdrs, prompt, res, extracted, ncalls,
                   hdrCalls, client, finished, early, invoked, sweep, content,
                   sent, temp_dir>>
    /\ UNCHANGED besidesPdf

\* executor.submit(process_single_page, (idx, img, temp_dir, headers, ...))
Submit ==
    /\ mpc = "submit"
    /\ sub \in Batch(bi)
    /\ pg' = [pg EXCEPT ![sub] = "queued"]
    /\ hdrs' = [hdrs EXCEPT ![sub] = SubmittedHeaders]
    /\ sub' = sub + 1
    /\ mpc' = IF sub + 1 \in Batch(bi) THEN "submit" ELSE "as_completed"
    /\ UNCHANGED <<rast, n, max_workers, batch_size, saved, images, files,
                   headers, all_items, bi, pool, collected, excPending, ret,
                   prompt, res, extracted, ncalls, hdrCalls, client,
                   item_page, finished, early, invoked, sweep, batches,
                   remaining_pages, content, sent, temp_dir>>
    /\ UNCHANGED besidesPdf


\* the first next() on as_completed(future_to_page): the futures already done
\* are set aside to be yielded first, the others get a waiter
AsCompleted ==
    /\ mpc = "as_completed"
    /\ early' = early \cup {p \in Batch(bi) : pg[p] = "done"}
    /\ mpc' = "collect"
    /\ UNCHANGED <<rast, n, max_workers, batch_size, saved, images, files,
                   headers, all_items, bi, sub, pool, collected, excPending,
                   ret, pg, hdrs, prompt, res, extracted, ncalls, hdrCalls,
                   client, item_page, finished, invoked, sweep, batches,
                   remaining_pages, content, sent, temp_dir>>
    /\ UNCHANGED besidesPdf

\* a pool thread takes the next work item and enters process_single_page
Start(p) ==
    /\ NextQueued(p)
    /\ ThreadFree
    /\ pg' = [pg EXCEPT ![p] = "save"]
    /\ invoked' = [invoked EXCEPT ![p] = @ + 1]
    /\ UNCHANGED <<mpc, rast, n, max_workers, batch_size, saved, images,
                   files, headers, all_items, bi, sub, pool, collected,
                   excPending, ret, hdrs, prompt, res, extracted, ncalls,
                   hdrCalls, client, item_page, finished, early, sweep,
                   batches, remaining_pages, content, sent, temp_dir>>
    /\ UNCHANGED besidesPdf

\* page p completed before page q, and neither has been yielded
FinishedBefore(p, q) ==
    \E i, j \in DOMAIN finished : i < j /\ finished[i] = p /\ finished[j] = q

\* futures waited for one after the other, in the order they were submitted
Yielded_submissionOrder(p) ==
    /\ p \in Batch(bi) \ collected
    /\ pg[p] = "done"
    /\ \A q \in Batch(bi) \ collected : p <= q

\* the future as_completed yields next: one of those already done when it
\* started, taken from a set in no defined order, and after them the others
\* in the order they finish
Yielded(p) ==
    /\ p \in Batch(bi) \ collected
    /\ pg[p] = "done"
    /\ IF early \ collected # {}
          THEN p \in early
          ELSE \A q \in Batch(bi) \ collected :
                  (q # p /\ pg[q] = "done") => FinishedBefore(p, q)

\* one iteration of `for future in as_completed(future_to_page)`
Collect(p) ==
    /\ mpc = "collect"
    /\ Yielded(p)
    /\ all_items' = Extend(all_items, res[p])
    /\ item_page' = Extend(item_page, Origins(p))
    /\ images' = [images EXCEPT ![p] = FALSE]
    /\ collected' = collected \cup {p}
    /\ finished' = SelectSeq(finished, LAMBDA x : x # p)
    /\ early' = early \ {p}
    /\ UNCHANGED <<mpc, rast, n, max_workers, batch_size, saved, files,
                   headers, bi, sub, pool, excPending, ret, pg, hdrs, prompt,
                   res, extracted, ncalls, hdrCalls, client, invoked, sweep,
                   batches, remaining_pages, content, sent, temp_dir>>
    /\ UNCHANGED besidesPdf

\* as_completed is exhausted, the with block shuts the executor down, and the
\* loop goes to the next batch
EndBatch ==
    /\ mpc = "collect"
    /\ BatchCollected(bi)
    /\ EnterBatchOrLeave(NextStart(bi))
    /\ UNCHANGED <<rast, n, max_workers, batch_size, saved, images, files,
                   headers, all_items, collected, excPending, ret, pg, hdrs,
                   prompt, res, extracted, ncalls, hdrCalls, client,
                   item_page, finished, early, invoked, sweep,
                   remaining_pages, content, sent, temp_dir>>
    /\ UNCHANGED besidesPdf

\* a glob for a pattern no page file matches
Globbed_none == {}

\* temp_dir.glob("*.jpg"): the page files in the temp directory
Globbed == files

\* the finally block: file.unlink() for each globbed file, a warning for each
\* unlink that raises; then `return InvoiceData(...)` or the re-raise
Cleanup ==
    /\ mpc = "cleanup"
    /\ \E failed \in SUBSET Globbed :
          /\ files' = (files \ Globbed) \cup failed
          /\ sweep' = [ran |-> TRUE, failed |-> failed]
    /\ temp_dir' = (temp_dir /\ files' # {})
    /\ content' = [k \in Paths |-> IF k \in files' THEN content[k] ELSE NoPage]
    /\ IF excPending
          THEN /\ mpc' = "raised"
               /\ UNCHANGED ret
          ELSE /\ mpc' = "returned"
               /\ ret' = [status |-> "ok", headers |-> headers,
                          items |-> all_items]
    /\ UNCHANGED <<rast, n, max_workers, batch_size, saved, images, headers,
                   all_items, bi, sub, pool, collected, excPending, pg, hdrs,
                   prompt, res, extracted, ncalls, hdrCalls, client,
                   item_page, finished, early, invoked, batches,
                   remaining_pages, sent>>
    /\ UNCHANGED besidesPdf

\* chunk indices
Chunks == 0 .. (MaxChunks - 1)

\* process_chunk has not ended for the chunk
Pending == [state |-> "pending", items |-> <<>>]

\* process_excel_file has not built its result
NoFinalResult ==
    [items |-> <<>>, extraction_status |-> "none", total_items |-> 0]

\* the items a parsed answer holds for chunk c
ChunkItems(c) == <<c>>

\* handlers that catch json.JSONDecodeError only
Caught_decodeOnly == {"bad_json"}

\* what the handlers of process_chunk catch: `except json.JSONDecodeError`
\* around json.loads, `except Exception` around the whole body
Caught == {"index_error", "api_error", "bad_json"}

\* process_chunk ends for chunk c: `return chunk_items`, with the parsed
\* list or with the empty list it started from, or an exception that no
\* handler caught
Ended(how, c) ==
    IF how = "parsed" THEN [state |-> "returned", items |-> ChunkItems(c)]
    ELSE IF how = "no_array" \/ how \in Caught
            THEN [state |-> "returned", items |-> <<>>]
    ELSE [state |-> "raised", items |-> <<>>]

\* the thread has not reached the length check of its current call
NotChecked == [found |-> "none", oldest |-> 0]

\* the limiter and the pool threads of process_excel_file are not in use
RlIdle ==
    /\ now = 0
    /\ rl_max = 1
    /\ rl_calls = <<>>
    /\ chunksLeft = 0
    /\ wpc = [w \in Workers |-> "idle"]
    /\ wcur = [w \in Workers |-> 0]
    /\ wtmp = [w \in Workers |-> <<>>]
    /\ wwake = [w \in Workers |-> 0]
    /\ wchk = [w \in Workers |-> NotChecked]
    /\ wsleep = [w \in Workers |-> 0]
    /\ wout = [w \in Workers |-> "none"]
    /\ wstamp = [w \in Workers |-> 0]
    /\ admitted = <<>>
    /\ num_chunks = 0
    /\ wchunk = [w \in Workers |-> 0]
    /\ results = [c \in Chunks |-> Pending]
    /\ xpc = "idle"
    /\ final_result = NoFinalResult

\* no result file has been written
NoFile == [by |-> "none", items |-> <<>>, whole |-> FALSE]

\* process_file is not running
PfIdle ==
    /\ fpc = "idle"
    /\ file_exists = FALSE
    /\ file_ext = ".pdf"
    /\ temp_files = <<>>
    /\ on_disk = {}
    /\ invoice_data = <<>>
    /\ json_path = ""
    /\ result_file = NoFile
    /\ raised_at = {}
    /\ escaped = FALSE

\* no other run shares the working directory
OtherAbsent ==
    /\ other_pc = "absent"
    /\ other_saved = {}

\* prepare_chunks is not running
PrepIdle ==
    /\ ppc = "idle"
    /\ df_len = 0
    /\ chunk_size = 1
    /\ chunk_i = 0
    /\ chunks_to_process = <<>>

Init == PdfInit /\ RlIdle /\ PfIdle /\ OtherAbsent /\ PrepIdle

\* every step after the rasterization
Run ==
    \/ CallFirstPage
    \/ TakeFirstPage
    \/ Submit
    \/ EndBatch
    \/ Cleanup
    \/ AsCompleted
    \/ \E p \in Pages : Start(p)
    \/ \E p \in Pages : Collect(p)
    \/ \E p \in Pages : SaveImage(p)
    \/ \E p \in Pages : HdrUpload(p)
    \/ \E p \in Pages : HdrGenerate(p)
    \/ \E p \in Pages : Upload(p)
    \/ \E p \in Pages : Generate(p)

Next == ConvertFromPath \/ Run

Spec == Init /\ [][Next]_vars

\* every call returns or raises, and every thread that can take a step is
\* scheduled
FairSpec == Spec /\ WF_vars(Next)

\* runs in which the client is a deterministic mock
NextDet == ConvertFromPathMock \/ Run

SpecDet == Init /\ [][NextDet]_vars


(* ------------- RateLimiter and process_excel_file threads -------------- *)
\* [t for t in self.calls if current_time - t < 60]
Pruned(calls, current_time) ==
    LET Keep(t) == current_time - t < Window IN SelectSeq(calls, Keep)

\* rate_limiter = RateLimiter(...); the pool threads idle; executor.map has
\* queued the chunks
RlInit ==
    /\ now = 0
    /\ rl_max \in 1 .. MaxCallsBound
    /\ rl_calls = <<>>
    /\ chunksLeft \in 1 .. MaxChunks
    /\ wpc = [w \in Workers |-> "idle"]
    /\ wcur = [w \in Workers |-> 0]
    /\ wtmp = [w \in Workers |-> <<>>]
    /\ wwake = [w \in Workers |-> 0]
    /\ wchk = [w \in Workers |-> NotChecked]
    /\ wsleep = [w \in Workers |-> 0]
    /\ wout = [w \in Workers |-> "none"]
    /\ wstamp = [w \in Workers |-> 0]
    /\ admitted = <<>>
    /\ num_chunks = chunksLeft
    /\ wchunk = [w \in Workers |-> 0]
    /\ results = [c \in Chunks |-> Pending]
    /\ xpc = "map"
    /\ final_result = NoFinalResult

\* a pool thread takes the next chunk and enters process_chunk, which calls
\* rate_limiter.wait_if_needed()
TakeChunk(w) ==
    /\ wpc[w] = "idle"
    /\ chunksLeft > 0
    /\ chunksLeft' = chunksLeft - 1
    /\ wchunk' = [wchunk EXCEPT ![w] = num_chunks - chunksLeft]
    /\ wpc' = [wpc EXCEPT ![w] = "read_time"]
    /\ wchk' = [wchk EXCEPT ![w] = NotChecked]
    /\ wsleep' = [wsleep EXCEPT ![w] = 0]
    /\ wout' = [wout EXCEPT ![w] = "none"]
    /\ UNCHANGED <<now, rl_max, rl_calls, wcur, wtmp, wwake, admitted,
                   num_chunks, results, xpc, final_result, wstamp>>
    /\ UNCHANGED besidesRl

\* current_time = time.time()
ReadTime(w) ==
    /\ wpc[w] = "read_time"
    /\ wcur' = [wcur EXCEPT ![w] = now]
    /\ wpc' = [wpc EXCEPT ![w] = "prune"]
    /\ UNCHANGED <<now, rl_max, rl_calls, chunksLeft, wtmp, wwake, wchk,
                   wsleep, wout, admitted, num_chunks, wchunk, results, xpc,
                   final_result, wstamp>>
    /\ UNCHANGED besidesRl

\* the list comprehension over self.calls builds a new list
PruneBuild(w) ==
    /\ wpc[w] = "prune"
    /\ wtmp' = [wtmp EXCEPT ![w] = Pruned(rl_calls, wcur[w])]
    /\ wpc' = [wpc EXCEPT ![w] = "store"]
    /\ UNCHANGED <<now, rl_max, rl_calls, chunksLeft, wcur, wwake, wchk,
                   wsleep, wout, admitted, num_chunks, wchunk, results, xpc,
                   final_result, wstamp>>
    /\ UNCHANGED besidesRl

\* self.calls = <the new list>
PruneStore(w) ==
    /\ wpc[w] = "store"
    /\ rl_calls' = wtmp[w]
    /\ wpc' = [wpc EXCEPT ![w] = "check"]
    /\ UNCHANGED <<now, rl_max, chunksLeft, wcur, wtmp, wwake, wchk, wsleep,
                   wout, admitted, num_chunks, wchunk, results, xpc,
                   final_result, wstamp>>
    /\ UNCHANGED besidesRl

\* if len(self.calls) >= self.max_calls_per_minute
CheckLimit(w) ==
    /\ wpc[w] = "check"
    /\ IF Len(rl_calls) >= rl_max
          THEN /\ wpc' = [wpc EXCEPT ![w] = "oldest"]
               /\ wchk' = [wchk EXCEPT ![w] =
                             [found |-> "full", oldest |-> rl_calls[1]]]
          ELSE /\ wpc' = [wpc EXCEPT ![w] = "record"]
               /\ wchk' = [wchk EXCEPT ![w] =
                             [found |-> "free", oldest |-> 0]]
    /\ UNCHANGED <<now, rl_max, rl_calls, chunksLeft, wcur, wtmp, wwake,
                   wsleep, wout, admitted, num_chunks, wchunk, results, xpc,
                   final_result, wstamp>>
    /\ UNCHANGED besidesRl

\* oldest_call = self.calls[0]; sleep_time = 60 - (current_time - oldest_call);
\* time.sleep(sleep_time) if it is positive. An empty list raises IndexError,
\* which process_chunk catches: the chunk ends without an API call.
ReadOldest(w) ==
    /\ wpc[w] = "oldest"
    /\ IF rl_calls = <<>>
          THEN /\ wpc' = [wpc EXCEPT ![w] = "idle"]
               /\ wout' = [wout EXCEPT ![w] = "index_error"]
               /\ results' = [results EXCEPT ![wchunk[w]] =
                                 Ended("index_error", wchunk[w])]
               /\ wchunk' = [wchunk EXCEPT ![w] = 0]
               /\ UNCHANGED <<wwake, wsleep>>
          ELSE LET sleep_time == Window - (wcur[w] - rl_calls[1]) IN
               /\ wsleep' = [wsleep EXCEPT ![w] = sleep_time]
               /\ UNCHANGED <<wout, results, wchunk>>
               /\ IF sleep_time > 0
                     THEN /\ wwake' = [wwake EXCEPT ![w] = now + sleep_time]
                          /\ wpc' = [wpc EXCEPT ![w] = "sleep"]
                     ELSE /\ wpc' = [wpc EXCEPT ![w] = "record"]
                          /\ UNCHANGED wwake
    /\ UNCHANGED <<now, rl_max, rl_calls, chunksLeft, wcur, wtmp, wchk,
                   admitted, num_chunks, xpc, final_result, wstamp>>
    /\ UNCHANGED besidesRl

\* time.sleep returns
Wake(w) ==
    /\ wpc[w] = "sleep"
    /\ now >= wwake[w]
    /\ wpc' = [wpc EXCEPT ![w] = "record"]
    /\ UNCHANGED <<now, rl_max, rl_calls, chunksLeft, wcur, wtmp, wwake, wchk,
                   wsleep, wout, admitted, num_chunks, wchunk, results, xpc,
                   final_result, wstamp>>
    /\ UNCHANGED besidesRl

\* the argument of the append: time.time() is evaluated
Stamp(w) ==
    /\ wpc[w] = "record"
    /\ wstamp' = [wstamp EXCEPT ![w] = now]
    /\ wpc' = [wpc EXCEPT ![w] = "append"]
    /\ UNCHANGED <<now, rl_max, rl_calls, chunksLeft, wcur, wtmp, wwake, wchk,
                   wsleep, wout, admitted, num_chunks, wchunk, results, xpc,
                   final_result>>
    /\ UNCHANGED besidesRl

\* self.calls.append(<that value>); wait_if_needed returns
Record(w) ==
    /\ wpc[w] = "append"
    /\ rl_calls' = Append(rl_calls, wstamp[w])
    /\ admitted' = Append(admitted, wstamp[w])
    /\ wpc' = [wpc EXCEPT ![w] = "api"]
    /\ wout' = [wout EXCEPT ![w] = "recorded"]
    /\ wstamp' = [wstamp EXCEPT ![w] = 0]
    /\ UNCHANGED <<now, rl_max, chunksLeft, wcur, wtmp, wwake, wchk, wsleep,
                   num_chunks, wchunk, results, xpc, final_result>>
    /\ UNCHANGED besidesRl

\* client.models.generate_content and the rest of process_chunk: the call
\* raises, or the text holds no JSON array, or an array json.loads rejects,
\* or an array that is parsed; the locals of the call end with it
CallApi(w) ==
    /\ wpc[w] = "api"
    /\ wpc' = [wpc EXCEPT ![w] = "idle"]
    /\ \E how \in {"api_error", "no_array", "bad_json", "parsed"} :
          results' = [results EXCEPT ![wchunk[w]] = Ended(how, wchunk[w])]
    /\ wchunk' = [wchunk EXCEPT ![w] = 0]
    /\ wcur' = [wcur EXCEPT ![w] = 0]
    /\ wtmp' = [wtmp EXCEPT ![w] = <<>>]
    /\ wwake' = [wwake EXCEPT ![w] = 0]
    /\ wchk' = [wchk EXCEPT ![w] = NotChecked]
    /\ wsleep' = [wsleep EXCEPT ![w] = 0]
    /\ wout' = [wout EXCEPT ![w] = "none"]
    /\ UNCHANGED <<now, rl_max, rl_calls, chunksLeft, admitted, num_chunks,
                   xpc, final_result, wstamp>>
    /\ UNCHANGED besidesRl

\* the clock advances
Tick ==
    /\ \E d \in TickSteps :
          /\ now + d <= MaxTime
          /\ now' = now + d
    /\ UNCHANGED <<rl_max, rl_calls, chunksLeft, wpc, wcur, wtmp, wwake, wchk,
                   wsleep, wout, admitted, num_chunks, wchunk, results, xpc,
                   final_result, wstamp>>
    /\ UNCHANGED besidesRl

\* all_items.extend(chunk_items) over the results, in chunk order
RECURSIVE Combined(_)
Combined(k) ==
    IF k = 0 THEN <<>> ELSE Combined(k - 1) \o results[k - 1].items

\* a status that is COMPLETE only when every chunk brought an item
ExtractionStatus_everyChunk(all_items_) ==
    IF Len(all_items_) >= num_chunks THEN "COMPLETE" ELSE "INCOMPLETE"

\* "COMPLETE" if all_items else "INCOMPLETE"
ExtractionStatus(all_items_) ==
    IF all_items_ # <<>> THEN "COMPLETE" ELSE "INCOMPLETE"

\* list(executor.map(...)) once every chunk has ended, the loop that extends
\* all_items, final_result, and the write to output_path, which may raise;
\* an exception of process_chunk is raised again by the iteration
Combine ==
    /\ xpc = "map"
    /\ \A c \in 0 .. (num_chunks - 1) : results[c].state # "pending"
    /\ IF \E c \in 0 .. (num_chunks - 1) : results[c].state = "raised"
          THEN /\ xpc' = "chunk_raised"
               /\ UNCHANGED final_result
          ELSE /\ final_result' =
                     [items |-> Combined(num_chunks),
                      extraction_status |->
                          ExtractionStatus(Combined(num_chunks)),
                      total_items |-> Len(Combined(num_chunks))]
               /\ xpc' \in {"returned", "write_raised"}
    /\ UNCHANGED <<now, rl_max, rl_calls, chunksLeft, wpc, wcur, wtmp, wwake,
                   wchk, wsleep, wout, admitted, num_chunks, wchunk, results,
                   wstamp>>
    /\ UNCHANGED besidesRl

\* process_pdf_with_headers is not running
PdfIdle ==
    /\ PdfInit
    /\ max_workers = 1
    /\ batch_size = 1

InitRL == PdfIdle /\ RlInit /\ PfIdle /\ OtherAbsent /\ PrepIdle

NextRL ==
    \/ Tick
    \/ \E w \in Workers : TakeChunk(w)
    \/ \E w \in Workers : ReadTime(w)
    \/ \E w \in Workers : PruneBuild(w)
    \/ \E w \in Workers : PruneStore(w)
    \/ \E w \in Workers : CheckLimit(w)
    \/ \E w \in Workers : ReadOldest(w)
    \/ \E w \in Workers : Wake(w)
    \/ \E w \in Workers : Stamp(w)
    \/ \E w \in Workers : Record(w)
    \/ \E w \in Workers : CallApi(w)
    \/ Combine

SpecRL == InitRL /\ [][NextRL]_vars

\* a deterministic mock of the client: generate_content answers every chunk
\* with a JSON array that json.loads accepts
MockAnswer(c) == "parsed"

\* process_chunk against the mock, from generate_content to the return
CallApiMock(w) ==
    /\ wpc[w] = "api"
    /\ wpc' = [wpc EXCEPT ![w] = "idle"]
    /\ results' = [results EXCEPT ![wchunk[w]] =
                      Ended(MockAnswer(wchunk[w]), wchunk[w])]
    /\ wchunk' = [wchunk EXCEPT ![w] = 0]
    /\ wcur' = [wcur EXCEPT ![w] = 0]
    /\ wtmp' = [wtmp EXCEPT ![w] = <<>>]
    /\ wwake' = [wwake EXCEPT ![w] = 0]
    /\ wchk' = [wchk EXCEPT ![w] = NotChecked]
    /\ wsleep' = [wsleep EXCEPT ![w] = 0]
    /\ wout' = [wout EXCEPT ![w] = "none"]
    /\ UNCHANGED <<now, rl_max, rl_calls, chunksLeft, admitted, num_chunks,
                   xpc, final_result, wstamp>>
    /\ UNCHANGED besidesRl

\* process_excel_file run against the mock
NextRLDet ==
    \/ Tick
    \/ \E w \in Workers : TakeChunk(w)
    \/ \E w \in Workers : ReadTime(w)
    \/ \E w \in Workers : PruneBuild(w)
    \/ \E w \in Workers : PruneStore(w)
    \/ \E w \in Workers : CheckLimit(w)
    \/ \E w \in Workers : ReadOldest(w)
    \/ \E w \in Workers : Wake(w)
    \/ \E w \in Workers : Stamp(w)
    \/ \E w \in Workers : Record(w)
    \/ \E w \in Workers : CallApiMock(w)
    \/ Combine

SpecRLDet == InitRL /\ [][NextRLDet]_vars

(* ---------------------------- prepare_chunks --------------------------- *)
\* a chunk count that drops a last chunk of fewer than cs rows
NumChunks_floor(L, cs) == L \div cs

\* num_chunks = (len(df) + chunk_size - 1) // chunk_size
NumChunks(L, cs) == (L + cs - 1) \div cs

\* the rows df.iloc[a:b] selects from a table of L rows
Slice(L, a, b) == {r \in 0 .. (L - 1) : a <= r /\ r < b}

\* prepare_chunks(df, chunk_size) is called
PrepInit ==
    /\ ppc = "count"
    /\ df_len \in 0 .. MaxRows
    /\ chunk_size \in 1 .. MaxChunkSize
    /\ chunk_i = 0
    /\ chunks_to_process = <<>>

\* num_chunks = ...; chunks_to_process = []; the loop is entered or skipped
CountChunks ==
    /\ ppc = "count"
    /\ ppc' = IF NumChunks(df_len, chunk_size) > 0 THEN "loop" ELSE "return"
    /\ chunk_i' = 0
    /\ chunks_to_process' = <<>>
    /\ UNCHANGED <<df_len, chunk_size>>
    /\ UNCHANGED besidesPrep

\* one pass of `for i in range(num_chunks)`: start_idx, end_idx, chunk_df
\* and the append, then the next i or the end of the loop
AppendChunk ==
    /\ ppc = "loop"
    /\ LET start_idx == chunk_i * chunk_size
           end_idx == Min((chunk_i + 1) * chunk_size, df_len)
       IN chunks_to_process' =
              Append(chunks_to_process,
                     [i |-> chunk_i,
                      rows |-> Slice(df_len, start_idx, end_idx),
                      start_idx |-> start_idx,
                      end_idx |-> end_idx])
    /\ IF chunk_i + 1 < NumChunks(df_len, chunk_size)
          THEN chunk_i' = chunk_i + 1 /\ ppc' = "loop"
          ELSE chunk_i' = chunk_i /\ ppc' = "return"
    /\ UNCHANGED <<df_len, chunk_size>>
    /\ UNCHANGED besidesPrep

\* return chunks_to_process
ReturnChunks ==
    /\ ppc = "return"
    /\ ppc' = "returned"
    /\ UNCHANGED <<df_len, chunk_size, chunk_i, chunks_to_process>>
    /\ UNCHANGED besidesPrep

InitPrep == PdfIdle /\ RlIdle /\ PfIdle /\ OtherAbsent /\ PrepInit

NextPrep == CountChunks \/ AppendChunk \/ ReturnChunks

SpecPrep == InitPrep /\ [][NextPrep]_vars

(* ------------------------------ process_file --------------------------- *)
\* the extensions of the inputs tried; ".png" stands for every extension
\* the dispatch does not know
Exts == {".pdf", ".xlsx", ".xls", ".docx", ".doc", ".txt", ".png"}
ExcelExts == {".xlsx", ".xls"}
DocExts == {".doc", ".docx", ".txt"}

\* tempfile.NamedTemporaryFile(delete=False, suffix='.pdf').name
TempPdf == "temp.pdf"
\* the file convert_xls_to_xlsx returns
XlsxCopy == "copy.xlsx"
\* os.path.join(result_dir, f"{base_filename}.json")
ResultPath == "result/name.json"

PfInit ==
    /\ fpc = "start"
    /\ file_exists \in BOOLEAN
    /\ file_ext \in Exts
    /\ temp_files = <<>>
    /\ on_disk = {}
    /\ invoice_data = <<>>
    /\ json_path = ""
    /\ result_file = NoFile
    /\ raised_at = {}
    /\ escaped = FALSE

\* a try block that ends before save_to_json is called
TryBody_untilExtraction == {"check", "convert", "extract"}

\* the statements between `try:` and the handlers
TryBody == {"check", "convert", "extract", "save", "print"}

\* a call made at `step` raises: a handler logs the exception and the
\* finally block runs, or the exception leaves process_file
Raise(step) ==
    /\ raised_at' = raised_at \cup {step}
    /\ IF step \in TryBody
         THEN fpc' = "finally" /\ escaped' = escaped
         ELSE fpc' = "propagated" /\ escaped' = TRUE

\* if file_ext in ['.xlsx', '.xls'] ... elif ... else: return json_path
Branch(ext) ==
    IF ext = ".xls" \/ ext \in DocExts THEN "convert"
    ELSE IF ext = ".xlsx" \/ ext = ".pdf" THEN "extract"
    ELSE "finally"

\* the existence check, the temporary name and the dispatch on file_ext
CheckInput ==
    /\ fpc = "start"
    /\ \/ /\ ~file_exists
          /\ fpc' = "finally"
          /\ UNCHANGED <<temp_files, on_disk, raised_at, escaped>>
       \/ /\ file_exists
          /\ temp_files' = Append(temp_files, TempPdf)
          /\ on_disk' = on_disk \cup {TempPdf}
          /\ fpc' = Branch(file_ext)
          /\ UNCHANGED <<raised_at, escaped>>
       \/ /\ file_exists
          /\ Raise("check")
          /\ UNCHANGED <<temp_files, on_disk>>
    /\ UNCHANGED <<file_exists, file_ext, invoice_data, json_path,
                   result_file>>
    /\ UNCHANGED besidesPf

\* convert_xls_to_xlsx, txt_to_pdf or docx_to_pdf
ConvertInput ==
    /\ fpc = "convert"
    /\ \/ /\ temp_files' = Append(temp_files,
                                  IF file_ext = ".xls" THEN XlsxCopy
                                  ELSE TempPdf)
          /\ on_disk' = on_disk \cup
                           {IF file_ext = ".xls" THEN XlsxCopy ELSE TempPdf}
          /\ fpc' = "extract"
          /\ UNCHANGED <<raised_at, escaped>>
       \/ /\ Raise("convert")
          /\ UNCHANGED <<temp_files, on_disk>>
    /\ UNCHANGED <<file_exists, file_ext, invoice_data, json_path,
                   result_file>>
    /\ UNCHANGED besidesPf

\* process_excel_file returns the items, having written them to
\* output_path, or raises
ExtractExcel ==
    /\ fpc = "extract"
    /\ file_ext \in ExcelExts
    /\ \/ \E its \in ItemLists :
             /\ invoice_data' = its
             /\ result_file' = [by |-> "process_excel_file", items |-> its,
                                whole |-> TRUE]
             /\ fpc' = "save"
             /\ UNCHANGED <<raised_at, escaped>>
       \/ /\ Raise("extract")
          /\ UNCHANGED <<invoice_data, result_file>>
    /\ UNCHANGED <<file_exists, file_ext, temp_files, on_disk, json_path>>
    /\ UNCHANGED besidesPf

\* process_pdf_with_headers returns an InvoiceData, or raises
ExtractPdf ==
    /\ fpc = "extract"
    /\ file_ext \notin ExcelExts
    /\ \/ \E its \in ItemLists :
             /\ invoice_data' = its
             /\ fpc' = "save"
             /\ UNCHANGED <<raised_at, escaped>>
       \/ /\ Raise("extract")
          /\ UNCHANGED invoice_data
    /\ UNCHANGED <<file_exists, file_ext, temp_files, on_disk, json_path,
                   result_file>>
    /\ UNCHANGED besidesPf

\* json_path = save_to_json(invoice_data, file_path): it returns the path
\* after json.dump, or raises before the file is opened, or raises in
\* json.dump with the file opened for writing
SaveToJson ==
    /\ fpc = "save"
    /\ \/ /\ result_file' = [by |-> "save_to_json", items |-> invoice_data,
                             whole |-> TRUE]
          /\ json_path' = ResultPath
          /\ fpc' = "print"
          /\ UNCHANGED <<raised_at, escaped>>
       \/ /\ Raise("save")
          /\ UNCHANGED <<json_path, result_file>>
       \/ /\ Raise("save")
          /\ result_file' = [by |-> "save_to_json", items |-> <<>>,
                             whole |-> FALSE]
          /\ UNCHANGED json_path
    /\ UNCHANGED <<file_exists, file_ext, temp_files, on_disk, invoice_data>>
    /\ UNCHANGED besidesPf

\* print(f"Results saved to: {json_path}")
PrintPath ==
    /\ fpc = "print"
    /\ \/ fpc' = "finally" /\ UNCHANGED <<raised_at, escaped>>
       \/ Raise("print")
    /\ UNCHANGED <<file_exists, file_ext, temp_files, on_disk, invoice_data,
                   json_path, result_file>>
    /\ UNCHANGED besidesPf

\* the temporary files process_file recorded
Recorded == {temp_files[k] : k \in DOMAIN temp_files}

\* the finally block and `return json_path`: an unlink that raises leaves
\* its file
Finally ==
    /\ fpc = "finally"
    /\ \E failed \in SUBSET (on_disk \cap Recorded) :
          on_disk' = (on_disk \ Recorded) \cup failed
    /\ fpc' = "returned"
    /\ UNCHANGED <<file_exists, file_ext, temp_files, invoice_data,
                   json_path, result_file, raised_at, escaped>>
    /\ UNCHANGED besidesPf

InitPF == PdfIdle /\ RlIdle /\ PfInit /\ OtherAbsent /\ PrepIdle

NextPF ==
    \/ CheckInput
    \/ ConvertInput
    \/ ExtractExcel
    \/ ExtractPdf
    \/ SaveToJson
    \/ PrintPath
    \/ Finally

SpecPF == InitPF /\ [][NextPF]_vars

(* ------------- two runs in one working directory ----------------------- *)
\* the file holds an image written by the other run
OtherRun == -2

\* the other run of process_pdf_with_headers has converted its PDF and
\* executes temp_dir.mkdir(parents=True, exist_ok=True)
OtherStart ==
    /\ other_pc = "before"
    /\ other_pc' = "pages"
    /\ temp_dir' = TRUE
    /\ UNCHANGED other_saved
    /\ UNCHANGED besidesRuns
    /\ UNCHANGED <<mpc, rast, n, max_workers, batch_size, images, files,
                   saved, headers, all_items, bi, sub, pool, collected,
                   excPending, ret, pg, hdrs, prompt, res, extracted, ncalls,
                   hdrCalls, client, item_page, finished, early, invoked,
                   sweep, batches, remaining_pages, content, sent>>

\* save_image of the other run writes its page_k.jpg
OtherSaveImage(k) ==
    /\ other_pc = "pages"
    /\ temp_dir
    /\ k \notin other_saved
    /\ other_saved' = other_saved \cup {k}
    /\ files' = files \cup {k}
    /\ content' = [content EXCEPT ![k] = OtherRun]
    /\ UNCHANGED other_pc
    /\ UNCHANGED besidesRuns
    /\ UNCHANGED <<mpc, rast, n, max_workers, batch_size, images, saved,
                   headers, all_items, bi, sub, pool, collected, excPending,
                   ret, pg, hdrs, prompt, res, extracted, ncalls, hdrCalls,
                   client, item_page, finished, early, invoked, sweep,
                   batches, remaining_pages, sent, temp_dir>>

\* the finally block of the other run: it unlinks every *.jpg of the
\* directory, then removes the directory
OtherCleanup ==
    /\ other_pc = "pages"
    /\ other_pc' = "exited"
    /\ files' = {}
    /\ content' = [k \in Paths |-> IF k \in files' THEN content[k] ELSE NoPage]
    /\ temp_dir' = (temp_dir /\ files' # {})
    /\ UNCHANGED other_saved
    /\ UNCHANGED besidesRuns
    /\ UNCHANGED <<mpc, rast, n, max_workers, batch_size, images, saved,
                   headers, all_items, bi, sub, pool, collected, excPending,
                   ret, pg, hdrs, prompt, res, extracted, ncalls, hdrCalls,
                   client, item_page, finished, early, invoked, sweep,
                   batches, remaining_pages, sent>>

\* both runs are calls process_file makes:
\* process_pdf_with_headers(file_path, max_workers=2, batch_size=2)
InitTwoRuns ==
    /\ PdfInit /\ RlIdle /\ PfIdle /\ PrepIdle
    /\ max_workers = 2
    /\ batch_size = 2
    /\ other_pc = "before"
    /\ other_saved = {}

NextTwoRuns ==
    \/ Next
    \/ OtherStart
    \/ OtherCleanup
    \/ \E k \in Paths : OtherSaveImage(k)

SpecTwoRuns == InitTwoRuns /\ [][NextTwoRuns]_vars

(* ======================= properties: PDF pipeline ====================== *)
RECURSIVE SeqToBag(_)
SeqToBag(sq) ==
    IF sq = <<>> THEN EmptyBag ELSE SetToBag({Head(sq)}) (+) SeqToBag(Tail(sq))

RECURSIVE BagSum(_, _)
\* the bag union of f[p] over p in S
BagSum(f, S) ==
    IF S = {} THEN EmptyBag
    ELSE LET p == CHOOSE x \in S : TRUE IN f[p] (+) BagSum(f, S \ {p})

DocPages == 0 .. (n - 1)
LaterPages == 1 .. (n - 1)
Dispatched(p) == pg[p] # "idle"
Terminal(p) == pg[p] = "done" /\ res[p].status \in {"ok", "failed"}
\* index of the batch of page p >= 1
BatchOf(p) == (p - 1) \div batch_size

\* C1: no upload or generate_content call of a page with index > 0 starts
\* before process_single_page for page 0 has returned its result.
C1_FirstPageBeforeLaterCalls ==
    \A p \in LaterPages : ncalls[p] > 0 => Terminal(0)

C1_Witness ==
    /\ n >= 2
    /\ \E p \in LaterPages : pg[p] = "gen" /\ ncalls[p] = 1

\* C2 as stated: in a finished run on N >= 1 pages extract_headers has been
\* called exactly once, for page 0, and for no other page.
C2_Original ==
    (mpc = "returned" /\ n >= 1) =>
        /\ hdrCalls[0] = 1
        /\ \A p \in LaterPages : hdrCalls[p] = 0

\* C2 amended: extract_headers is called at most once, only for page 0 and
\* never for a page with index > 0; it has been called exactly once as soon as
\* save_image for page 0 has returned, and not at all when save_image raised.
C2_HeaderCallOnlyFirstPage ==
    /\ \A p \in Pages : p > 0 => hdrCalls[p] = 0
    /\ hdrCalls[0] <= 1
    /\ hdrCalls[0] = (IF 0 \in saved THEN 1 ELSE 0)

C2_Witness ==
    /\ mpc = "returned"
    /\ n >= 2
    /\ hdrCalls[0] = 1
    /\ \A p \in LaterPages : res[p].status = "ok"

\* C3: the header list passed to process_single_page for a page with index > 0,
\* and the one written into its prompt, is the header list of page 0's result;
\* it is empty when extract_headers returned nothing for page 0.
C3_HeaderContext ==
    \A p \in LaterPages :
        /\ Dispatched(p) => hdrs[p] = res[0].headers
        /\ p \in saved => prompt[p] = res[0].headers
        /\ (Dispatched(p) /\ extracted.status = "none") => hdrs[p] = <<>>

C3_Witness ==
    \E p \in LaterPages :
        /\ pg[p] = "gen"
        /\ prompt[p] = <<"Name", "Batch">>
        /\ res[0].headers = <<"Name", "Batch">>

\* C4: when the run returns, the multiset of InvoiceData.items is the multiset
\* union of the items of the pages that succeeded; a failed page contributes no
\* item, every page has been processed, and no page failure makes the run raise.
C4_ItemsOfSuccessfulPages ==
    /\ mpc = "returned" =>
          /\ \A p \in DocPages : Terminal(p)
          /\ \A p \in DocPages : res[p].status = "failed" => res[p].items = <<>>
          /\ SeqToBag(ret.items) =
                BagSum([p \in Pages |-> SeqToBag(res[p].items)],
                       {p \in DocPages : res[p].status = "ok"})
    /\ (\E p \in Pages : res[p].status = "failed") => mpc # "raised"

C4_Witness ==
    /\ mpc = "returned"
    /\ n = 3
    /\ res[1].status = "failed"
    /\ res[0].status = "ok" /\ res[0].items # <<>>
    /\ res[2].status = "ok" /\ res[2].items = res[0].items

\* C5: no page of a later batch is submitted before every page of each
\* earlier batch has a terminal result.
C5_BatchesSequential ==
    \A p \in LaterPages : \A q \in LaterPages :
        (BatchOf(p) < BatchOf(q) /\ Dispatched(q)) => Terminal(p)

C5_Witness ==
    \E p \in LaterPages : \E q \in LaterPages :
        /\ BatchOf(p) < BatchOf(q)
        /\ pg[q] = "gen"
        /\ res[p].status = "failed"

\* C6: at most min(max_workers, batch_size) pages are inside
\* process_single_page at once; while page 0 is inside, it is the only one.
C6_BoundedConcurrency ==
    /\ Cardinality(Running) <= Min(max_workers, batch_size)
    /\ pg[0] \in RunningStages => Running = {0}

C6_Witness ==
    /\ max_workers = 1
    /\ batch_size = 2
    /\ pg[1] = "gen"
    /\ pg[2] = "queued"

\* C7 as stated: if process_single_page for page 0 takes its exception path,
\* no exception reaches the caller and every page with index > 0 is dispatched
\* with an empty header list.
C7_Original ==
    res[0].status = "failed" =>
        /\ mpc # "raised"
        /\ \A p \in LaterPages : Dispatched(p) => hdrs[p] = <<>>

\* C7 amended: if process_single_page for page 0 takes its exception path, no
\* exception reaches the caller and every page with index > 0 is dispatched
\* with the header list page 0 held when it failed: the empty list if
\* extract_headers had not returned, the list extract_headers returned
\* otherwise.
C7_FirstPageFailure ==
    res[0].status = "failed" =>
        /\ mpc # "raised"
        /\ ~excPending
        /\ \A p \in LaterPages : Dispatched(p) =>
              hdrs[p] = (IF extracted.status = "ok" THEN extracted.headers
                                                    ELSE <<>>)

C7_Witness ==
    /\ mpc = "returned"
    /\ n >= 2
    /\ res[0].status = "failed"
    /\ extracted.status = "ok"
    /\ hdrs[1] = <<"Name">>
    /\ res[1].status = "ok"

\* C8: a failure on a single page is absorbed as a failed page result, and
\* process_pdf_with_headers raises only when rasterization of the PDF failed.
C8_OnlyRasterizationRaises ==
    /\ (mpc = "raised" \/ excPending) => rast = "failed"
    /\ \A p \in Pages : res[p].status = "failed" => ~excPending

\* C9: if rasterization yields zero pages the run returns an InvoiceData with
\* empty headers and empty items, makes no LLM call and raises nothing.
C9_ZeroPagesDone ==
    (rast = "ok" /\ n = 0) =>
        /\ mpc # "raised"
        /\ ~excPending
        /\ \A p \in Pages : ncalls[p] = 0
        /\ mpc = "returned" => (ret.headers = <<>> /\ ret.items = <<>>)


(* ======================= properties: rate limiter ====================== *)
\* calls recorded in the 60 seconds that end at time t
AdmittedInWindow(t) ==
    Cardinality({i \in DOMAIN admitted : t - Window < admitted[i] /\ admitted[i] <= t})

\* C10: under every interleaving of the threads calling wait_if_needed, no
\* 60-second window holds more than max_calls_per_minute recorded calls.
C10_RateCeiling ==
    \A i \in DOMAIN admitted : AdmittedInWindow(admitted[i]) <= rl_max


\* C11: a call of wait_if_needed that finds max_calls_per_minute calls recorded
\* blocks for 60 - (current_time - oldest recorded call), records its own call
\* only once that oldest call is 60 seconds old, and does record it; a call
\* that finds fewer calls recorded goes on to record without blocking.
C11_BlocksUntilOldestLeaves ==
    \A w \in Workers :
        /\ (wchk[w].found = "full" /\ wpc[w] = "sleep") =>
              wsleep[w] = Window - (wcur[w] - wchk[w].oldest)
        /\ (wchk[w].found = "full" /\ wpc[w] = "record") =>
              now - wchk[w].oldest >= Window
        /\ wchk[w].found = "full" => wout[w] # "index_error"
        /\ wchk[w].found = "free" => wpc[w] \notin {"oldest", "sleep"}


\* thread w has read self.calls for the comprehension, or has stored the
\* pruned list, and has not yet appended its timestamp (the sleep excluded)
InReadModifyWrite(w) ==
    wpc[w] \in {"store", "check", "oldest", "record", "append"}

\* C22: at most one pool thread at a time is inside the sequence of
\* wait_if_needed that prunes the call list, checks the ceiling and appends.
C22_ExclusiveUpdate ==
    Cardinality({w \in Workers : InReadModifyWrite(w)}) <= 1


\* how many times t occurs in the sequence sq
Occurrences(sq, t) == Cardinality({i \in DOMAIN sq : sq[i] = t})

\* C27: a timestamp recorded by wait_if_needed stays in self.calls until it
\* is 60 seconds old, whatever the interleaving of the threads.
C27_NoLostUpdate ==
    \A i \in DOMAIN admitted :
        now - admitted[i] < Window =>
            Occurrences(rl_calls, admitted[i]) >=
                Occurrences(admitted, admitted[i])


\* generate_content calls started for page p: the calls of a page alternate
\* between client.files.upload and client.models.generate_content
GenerateCalls(p) == ncalls[p] \div 2

\* C12: every generate_content call, of a PDF page (header or item
\* extraction) or of an Excel chunk, is made only after its caller returned
\* from wait_if_needed, which records the call on the shared limiter.
C12_CallsPassLimiter ==
    /\ \A p \in Pages : GenerateCalls(p) > 0 => Len(admitted) > 0
    /\ \A w \in Workers : wpc[w] = "api" => wout[w] = "recorded"


\* the main thread is past `headers = first_page.headers`
PastFirstPage ==
    mpc \in {"submit", "as_completed", "collect", "cleanup", "returned"} /\ n >= 1

\* C13: the run's header list is written only by the assignment that follows
\* page 0, with the headers of page 0's result; no pool thread and no
\* collection step changes it afterwards, and the InvoiceData returned carries
\* that value.
C13_HeadersWrittenOnce ==
    /\ [][headers' # headers =>
             /\ mpc = "first_wait" /\ mpc' # "first_wait"
             /\ headers' = res[0].headers]_vars
    /\ [](~PastFirstPage => headers = <<>>)
    /\ [](PastFirstPage => headers = res[0].headers)
    /\ [](mpc = "returned" => PastFirstPage /\ ret.headers = headers)

C13_Witness ==
    /\ mpc = "returned"
    /\ n = 3
    /\ collected = {1, 2}
    /\ res[1].status = "ok" /\ res[2].status = "failed"
    /\ ret.headers = <<"Name", "Batch">>

\* the stages process_single_page goes through for page p
StagesOf(p) == IF p = 0 THEN RunningStages ELSE {"save", "upload", "gen"}

\* what a mocked client determines for a document, whatever the schedule:
\* the headers of page 0 (the initial empty list if page 0 fails before
\* extract_headers returns) and the items of each page that does not fail
MockHeaders ==
    IF client.fate[0].fail \in {"save", "hdr_upload", "hdr_gen"}
        THEN <<>> ELSE client.fate[0].headers
MockItems(p) ==
    IF client.fate[p].fail \in StagesOf(p) THEN <<>> ELSE client.fate[p].items

\* C14: with a deterministic client the result of a run is a function of the
\* document alone: under every interleaving of the pool threads, and for
\* every max_workers and batch_size, the run returns the same header list and
\* the same multiset of items.
C14_DeterministicResult ==
    (mpc = "returned" /\ client.det) =>
        /\ ret.headers = MockHeaders
        /\ SeqToBag(ret.items) =
              BagSum([p \in Pages |-> SeqToBag(MockItems(p))], DocPages)

\* two pages of one batch merged against page order
C14_Witness ==
    /\ mpc = "returned" /\ client.det
    /\ n = 3 /\ batch_size = 2 /\ max_workers = 2
    /\ client.fate[0] = Fate("none", <<"Name", "Batch">>, <<"b", "a">>)
    /\ client.fate[1] = Fate("none", <<>>, <<"a">>)
    /\ client.fate[2] = Fate("none", <<>>, <<"b", "a">>)
    /\ ret.items = <<"b", "a", "b", "a", "a">>

\* C15: in the returned items, the items of page 0 come first, and an item of
\* a page of an earlier batch precedes every item of a page of a later batch;
\* only items of pages of one batch may stand against page order.
C15_BatchOrder ==
    /\ Len(item_page) = Len(all_items)
    /\ mpc = "returned" => ret.items = all_items
    /\ \A i, j \in DOMAIN item_page :
          i < j =>
             /\ item_page[j] = 0 => item_page[i] = 0
             /\ (item_page[i] > 0 /\ item_page[j] > 0) =>
                   BatchOf(item_page[i]) <= BatchOf(item_page[j])

C15_Witness ==
    /\ mpc = "returned"
    /\ n = 3 /\ batch_size = 1
    /\ item_page = <<0, 0, 1, 2, 2>>

\* as_completed yields page q in this step
YieldsNow(q) == q \in collected' /\ q \notin collected

\* C16 as stated: within a batch, a page is never merged while another page
\* of the batch that completed before it is still unmerged.
C16_Original ==
    [][\A q \in Batch(bi) :
          YieldsNow(q) => ~\E p \in Batch(bi) : FinishedBefore(p, q)]_vars

\* C16: within a batch, a page q is merged while a page p that completed
\* before it is still unmerged only if q's task had already completed when
\* the collection loop entered as_completed (then p's had too); in every
\* other case the page that completed first is merged first, whatever the
\* submission order.
C16_CompletionOrder ==
    [][\A q \in Batch(bi) :
          YieldsNow(q) =>
             \A p \in Batch(bi) : FinishedBefore(p, q) => {p, q} \subseteq early]_vars

\* page 2 completed before page 1, which was submitted first, after
\* as_completed had started: page 2 is the one as_completed yields
C16_Witness ==
    /\ mpc = "collect"
    /\ n = 3 /\ batch_size = 2
    /\ finished = <<2, 1>>
    /\ early = {}
    /\ Yielded(2) /\ ~Yielded(1)

\* C17: if every call returns or raises and the threads are scheduled fairly,
\* a run on a document of at least one page returns, and when it has returned
\* process_single_page has been called exactly once for each page of the
\* document, for no other page, and each call has ended in one result, ok or
\* failed.
C17_Terminates ==
    /\ (rast = "ok" /\ n >= 1) ~> (mpc = "returned")
    /\ [](mpc = "returned" =>
            /\ \A p \in DocPages : invoked[p] = 1 /\ Terminal(p)
            /\ \A p \in Pages \ DocPages : invoked[p] = 0 /\ res[p] = NoResult)
    /\ [](\A p \in Pages : invoked[p] <= 1)

C17_Witness ==
    /\ mpc = "returned"
    /\ n = 3
    /\ \A p \in DocPages : invoked[p] = 1
    /\ res[0].status = "ok" /\ res[1].status = "failed" /\ res[2].status = "ok"

\* process_pdf_with_headers has been left after page processing began
Exited == mpc = "returned" \/ (mpc = "raised" /\ rast = "ok")

\* C18 as stated: on every exit after page processing began the cleanup pass
\* has run and no page file written by the run remains.
C18_Original ==
    Exited => sweep.ran /\ files = {}

\* C18: on every exit after page processing began, by return or by exception,
\* the cleanup pass has run and has tried to delete every page file; a page
\* file written by the run remains only if its unlink raised, which the pass
\* logs as a warning and does not propagate.
C18_CleanupRuns ==
    /\ Exited => sweep.ran /\ files = sweep.failed
    /\ sweep.ran => Exited
    /\ sweep.failed \subseteq {PagePath(p) : p \in saved}

C18_Witness ==
    /\ mpc = "returned"
    /\ n = 3
    /\ saved = {0, 1, 2}
    /\ sweep.failed = {1}
    /\ files = {1}

\* C19: when the rasterization of the PDF fails, the exception leaves
\* process_pdf_with_headers: no page is processed, no upload or
\* generate_content call is made, no page file is written and no InvoiceData
\* is returned.
C19_RasterizationFailure ==
    rast = "failed" =>
        /\ mpc = "raised"
        /\ \A p \in Pages : invoked[p] = 0 /\ ncalls[p] = 0 /\ hdrCalls[p] = 0
        /\ saved = {} /\ files = {}
        /\ ret = NoResult /\ all_items = <<>>

C19_Witness ==
    /\ rast = "failed"
    /\ mpc = "raised"
    /\ ret = NoResult

\* C20: for a document of one page no thread pool is created and no task
\* submitted, and the run returns page 0's outcome: the headers and the items
\* of page 0's result.
C20_SinglePage ==
    (rast = "ok" /\ n = 1) =>
        /\ pool = 0
        /\ mpc \notin {"submit", "as_completed", "collect"}
        /\ \A p \in LaterPages \cup (Pages \ DocPages) : pg[p] = "idle"
        /\ mpc = "returned" =>
              /\ ret.headers = res[0].headers
              /\ ret.items = res[0].items

\* page 0 yields the headers H and no item
C20_Witness ==
    /\ mpc = "returned" /\ n = 1
    /\ res[0].status = "ok"
    /\ res[0].headers = <<"Name", "Batch">> /\ res[0].items = <<>>
    /\ ret.headers = <<"Name", "Batch">> /\ ret.items = <<>>

(* ======================= properties: process_file ====================== *)
\* C21: no exception leaves process_file; it returns "" when the input is
\* missing, when its extension is not supported, and when the conversion,
\* the extraction or save_to_json raised; and json_path is non-empty only
\* when save_to_json has written the whole result file.
C21_NeverPropagates ==
    /\ ~escaped
    /\ fpc # "propagated"
    /\ (/\ fpc = "returned"
        /\ \/ ~file_exists
           \/ file_ext \notin ExcelExts \cup DocExts \cup {".pdf"}
           \/ raised_at \cap {"convert", "extract", "save"} # {})
       => json_path = ""
    /\ json_path # ""
       => result_file = [by |-> "save_to_json", items |-> invoice_data,
                         whole |-> TRUE]

\* save_to_json raised in json.dump and process_file returned ""
C21_Witness ==
    /\ fpc = "returned"
    /\ raised_at = {"save"}
    /\ result_file.by = "save_to_json"
    /\ ~result_file.whole
    /\ json_path = ""

(* ================= properties: PDF pipeline, continued ================= *)
\* the batch loop has been left without an exception
LoopLeft == mpc \in {"cleanup", "returned"} /\ ~excPending

\* C23: the batches are consecutive slices of pages 1 .. N-1: each is a run
\* of 1 to batch_size consecutive indices that starts where the one before
\* ended, every batch but the last holds batch_size pages, no index is in
\* two batches, and when the loop is left every index is in one.
C23_BatchesPartition ==
    /\ \A k \in DOMAIN batches :
          LET first == IF k = 1 THEN 1
                       ELSE 1 + Cardinality(UNION {batches[j] : j \in 1 .. (k - 1)})
              size == Cardinality(batches[k])
          IN /\ 1 <= size /\ size <= batch_size
             /\ batches[k] = first .. (first + size - 1)
             /\ k < Len(batches) => size = batch_size
    /\ \A j, k \in DOMAIN batches : j # k => batches[j] \cap batches[k] = {}
    /\ LoopLeft => UNION {batches[k] : k \in DOMAIN batches} = LaterPages

\* two later pages taken one per batch, and the loop left
C23_Witness ==
    /\ LoopLeft
    /\ n = 3
    /\ batch_size = 1
    /\ batches = <<{1}, {2}>>

\* the scheduler still holds a reference to the image of page p: in a slot
\* of `images`, or in a tuple of `remaining_pages` (of which `batch` is a
\* slice)
ImageReferenced(p) == images[p] \/ p \in remaining_pages

\* pages whose result the scheduler has collected
Consumed == collected \cup (IF PastFirstPage THEN {0} ELSE {})

\* C24: the scheduler holds no reference to the image of a page whose result
\* it has collected; in particular, when the dispatch of a batch begins, the
\* images of page 0 and of the pages of all earlier batches are unreferenced.
C24_ImagesReleased ==
    /\ \A p \in Consumed : ~ImageReferenced(p)
    /\ mpc = "submit" =>
          \A p \in {0} \cup UNION {batches[k] : k \in 1 .. (Len(batches) - 1)} :
              ~ImageReferenced(p)

\* positions of all_items that hold an item of page p
PositionsOf(p) == {k \in DOMAIN item_page : item_page[k] = p}

\* C25: the items of each page whose result was taken stand in all_items,
\* and in the items of the InvoiceData returned, as one contiguous block in
\* the order of the page's own result; items of two pages never interleave.
C25_ContiguousBlocks ==
    /\ Len(item_page) = Len(all_items)
    /\ mpc = "returned" => ret.items = all_items
    /\ \A p \in Pages :
          LET pos == PositionsOf(p) IN
          IF p \in Consumed
             THEN /\ Cardinality(pos) = Len(res[p].items)
                  /\ pos # {} =>
                        LET lo == CHOOSE k \in pos : \A x \in pos : k <= x IN
                        /\ pos = lo .. (lo + Len(res[p].items) - 1)
                        /\ \A k \in DOMAIN res[p].items :
                              all_items[lo + k - 1] = res[p].items[k]
             ELSE pos = {}

\* page 2 finished before page 1 of the same batch, each with its own items
C25_Witness ==
    /\ mpc = "returned"
    /\ item_page = <<0, 0, 2, 2, 1>>
    /\ all_items = <<"b", "a", "b", "a", "a">>

\* extract_headers returned a non-empty list for page 0 and the upload or the
\* generate_content call of the item extraction raised afterwards
ItemsFailedAfterHeaders ==
    /\ res[0].status = "failed"
    /\ extracted.status = "ok"
    /\ extracted.headers # <<>>

\* C26: when extract_headers has returned a non-empty list H for page 0 and
\* the item extraction of page 0 then raises, page 0's result carries H and
\* no item, the run's headers and the InvoiceData returned carry H, and every
\* later page is given H, in its argument and in its prompt.
C26_HeadersSurviveItemFailure ==
    ItemsFailedAfterHeaders =>
        /\ res[0].headers = extracted.headers
        /\ res[0].items = <<>>
        /\ PositionsOf(0) = {}
        /\ PastFirstPage => headers = extracted.headers
        /\ mpc = "returned" => ret.headers = extracted.headers
        /\ \A p \in LaterPages :
              /\ Dispatched(p) => hdrs[p] = extracted.headers
              /\ p \in saved => prompt[p] = extracted.headers

\* page 0 lost its items after its headers were read; a later page was
\* prompted with those headers and the run returned them
C26_Witness ==
    /\ ItemsFailedAfterHeaders
    /\ mpc = "returned"
    /\ ret.headers = <<"Name", "Batch">>
    /\ \E p \in LaterPages : prompt[p] = <<"Name", "Batch">> /\ res[p].status = "ok"

\* C29: within one run distinct page indices have distinct image paths: a
\* page is saved by one invocation only, its file holds that page's image
\* from the save until the cleanup pass, and an invocation uploads no file
\* but the one of its own page.
C29_DistinctPaths ==
    /\ \A p, q \in DocPages : p # q => PagePath(p) # PagePath(q)
    /\ \A p \in Pages : invoked[p] <= 1
    /\ ~sweep.ran =>
          \A p \in saved : PagePath(p) \in files /\ content[PagePath(p)] = p
    /\ \A p \in Pages : sent[p] \subseteq {p}

\* two pages of one batch in flight, each with its own file on disk, one of
\* them past its upload
C29_Witness ==
    /\ pg[1] = "gen"
    /\ pg[2] = "upload"
    /\ sent[1] = {1}
    /\ content[PagePath(1)] = 1
    /\ content[PagePath(2)] = 2

\* C28: two runs of process_pdf_with_headers in one working directory do not
\* touch each other's page files: a file this run saved holds its page until
\* this run's cleanup, a file the other run saved holds the other run's image
\* until the other run's cleanup, and this run uploads no image of the other.
C28_RunsIsolated ==
    /\ ~sweep.ran => \A p \in saved : content[PagePath(p)] = p
    /\ other_pc = "pages" => \A k \in other_saved : content[k] = OtherRun
    /\ \A p \in Pages : OtherRun \notin sent[p]

\* the page images in memory: those a list of the scheduler references
Materialized == {p \in Pages : ImageReferenced(p)}

\* the pages of the batches that follow the batch of page p; page 0 is
\* processed before every batch
InLaterBatch(p) ==
    {q \in LaterPages : p = 0 \/ BatchOf(q) > BatchOf(p)}

\* C34: page images are produced lazily in page order: while the extraction
\* of a page runs, no image of a page of a later batch is in memory, and the
\* number of page images in memory at once is at most the batch size,
\* whatever the page count.
C34_LazyImages ==
    /\ \A p \in Running : Materialized \cap InLaterBatch(p) = {}
    /\ Cardinality(Materialized) <= batch_size

\* C35: in every reachable state the call list of the rate limiter is in
\* non-decreasing timestamp order, so that calls[0], from which
\* wait_if_needed computes the sleep time, is the oldest call recorded in the
\* window; also when several pool threads are inside wait_if_needed at once.
C35_CallsSorted ==
    /\ \A j, k \in DOMAIN rl_calls : j < k => rl_calls[j] <= rl_calls[k]
    /\ \A k \in DOMAIN rl_calls : rl_calls[1] <= rl_calls[k]

(* =================== properties: process_excel_file ==================== *)
\* the chunk indices of the workbook, in order
ChunkOrder == [k \in 1 .. num_chunks |-> k - 1]

\* chunk c ended with a non-empty list
Answered(c) == results[c].items # <<>>

\* C30: process_chunk raises nothing: a failed API call, an answer without
\* a JSON array and an array that cannot be decoded each end the chunk with
\* the empty list, and only that chunk; process_excel_file is never ended by
\* a chunk, and what it returns holds the items of every other chunk, in
\* chunk order.
C30_ChunkFailuresIsolated ==
    /\ \A c \in Chunks :
          /\ results[c].state # "raised"
          /\ results[c].items \in {<<>>, ChunkItems(c)}
          /\ c >= num_chunks => results[c] = Pending
    /\ xpc # "chunk_raised"
    /\ xpc \in {"returned", "write_raised"} =>
          \A c \in 0 .. (num_chunks - 1) : results[c].state = "returned"
    /\ xpc = "returned" =>
          /\ final_result.items = SelectSeq(ChunkOrder, Answered)
          /\ final_result.extraction_status =
                (IF \E c \in Chunks : Answered(c) THEN "COMPLETE"
                 ELSE "INCOMPLETE")

\* the second of three chunks ended with the empty list and the result
\* returned holds the items of the first and the third
C30_Witness ==
    /\ xpc = "returned"
    /\ num_chunks = 3
    /\ results[1] = [state |-> "returned", items |-> <<>>]
    /\ final_result.items = <<0, 2>>

\* the pool threads inside process_chunk
Busy == {w \in Workers : wpc[w] # "idle"}

\* chunks handed to a thread so far
Started == 0 .. (num_chunks - chunksLeft - 1)

\* what a run against the mock returns when every chunk gets its answer: the
\* answers of chunks 0 .. k-1, concatenated in chunk order
RECURSIVE MockOutput(_)
MockOutput(k) ==
    IF k = 0 THEN <<>>
    ELSE MockOutput(k - 1) \o Ended(MockAnswer(k - 1), k - 1).items

\* C31: at most max_workers chunks are in flight, every chunk is handed to
\* one thread only and has ended when process_excel_file returns, the items
\* returned are the chunk results concatenated in chunk order, and against a
\* deterministic client that sequence is the same under every interleaving
\* of the pool threads.
C31_OrderedDeterministicOutput ==
    /\ Cardinality(Busy) <= NumWorkers
    /\ \A v, w \in Busy : v # w => wchunk[v] # wchunk[w]
    /\ \A w \in Busy : wchunk[w] \in Started /\ results[wchunk[w]] = Pending
    /\ \A c \in Chunks : c \notin Started => results[c] = Pending
    /\ xpc = "returned" =>
          /\ chunksLeft = 0 /\ Busy = {}
          /\ final_result.items = Combined(num_chunks)
          /\ final_result.items = MockOutput(num_chunks)

\* C33: in the result of process_excel_file total_items is the number of
\* items returned, and extraction_status is COMPLETE when at least one item
\* was extracted and INCOMPLETE otherwise: a run in which some chunks ended
\* empty and another brought an item is reported COMPLETE.
C33_StatusAndTotal ==
    xpc = "returned" =>
        /\ final_result.total_items = Len(final_result.items)
        /\ final_result.extraction_status \in {"COMPLETE", "INCOMPLETE"}
        /\ final_result.extraction_status = "COMPLETE" <=>
              final_result.items # <<>>
        /\ (\E c \in 0 .. (num_chunks - 1) : Answered(c)) =>
              final_result.extraction_status = "COMPLETE"
        /\ (\A c \in 0 .. (num_chunks - 1) : ~Answered(c)) =>
              /\ final_result.extraction_status = "INCOMPLETE"
              /\ final_result.total_items = 0

\* the first of three chunks ended empty, the other two brought an item
\* each: two items, COMPLETE
C33_Witness ==
    /\ xpc = "returned"
    /\ num_chunks = 3
    /\ ~Answered(0)
    /\ final_result =
           [items |-> <<1, 2>>, extraction_status |-> "COMPLETE",
            total_items |-> 2]

(* ===================== properties: prepare_chunks ====================== *)
\* the least number of chunks of cs rows that hold L rows
Ceil(L, cs) == CHOOSE k \in 0 .. L : k * cs >= L /\ (k > 0 => (k - 1) * cs < L)

\* C32: for a table of L rows and chunk_size >= 1, prepare_chunks returns
\* ceil(L / chunk_size) chunks with indices 0, 1, 2, ... whose row ranges
\* [start_idx, end_idx) follow one another from row 0 to row L, hold the
\* rows of their ranges, are pairwise disjoint and together are the rows
\* 0 .. L-1; every chunk but the last has chunk_size rows, and L = 0 gives
\* no chunk.
C32_ChunksPartitionRows ==
    ppc = "returned" =>
        LET cs == chunks_to_process
            K == Len(cs)
        IN /\ K = Ceil(df_len, chunk_size)
           /\ df_len = 0 => cs = <<>>
           /\ \A k \in 1 .. K :
                 /\ cs[k].i = k - 1
                 /\ cs[k].start_idx = (IF k = 1 THEN 0 ELSE cs[k - 1].end_idx)
                 /\ cs[k].start_idx < cs[k].end_idx
                 /\ cs[k].rows = cs[k].start_idx .. (cs[k].end_idx - 1)
                 /\ k < K => Cardinality(cs[k].rows) = chunk_size
                 /\ k = K => cs[k].end_idx = df_len
           /\ \A j, k \in 1 .. K : j # k => cs[j].rows \cap cs[k].rows = {}
           /\ UNION {cs[k].rows : k \in 1 .. K} = 0 .. (df_len - 1)

\* five rows in chunks of two: two full chunks and a last chunk of one row
C32_Witness ==
    /\ ppc = "returned"
    /\ df_len = 5
    /\ chunk_size = 2
    /\ Len(chunks_to_process) = 3
    /\ chunks_to_process[3] =
           [i |-> 2, rows |-> {4}, start_idx |-> 4, end_idx |-> 5]

====
